---- MODULE Spec2Model ----
(***************************************************************************)
(* The Vienna Game Job System: the worker pool (JobSystem), its lockfree   *)
(* queues (JobQueue), the callable Job with its parent/child counter, and  *)
(* the coroutine promise (Coro_promise) with its awaiters.                 *)
(*                                                                         *)
(* Every thread is a small program counter machine.  One action is one     *)
(* access to shared memory (an atomic load, a CAS, a fetch_add/fetch_sub,  *)
(* a write to a node field) together with the thread-private computation   *)
(* that follows it up to the next shared access.                           *)
(***************************************************************************)
EXTENDS Integers, Sequences, FiniteSets, TLC

\* ------------------------------------------------------------------ bounds
MaxWorkers == 3      \* pool threads the constructor may be asked for
MaxNodes   == 3      \* node slots the memory resource can hand out
MaxSched   == 4      \* schedule(callable) calls made by user code in one run
MaxUnder   == 1      \* how far below zero a children counter is followed
MaxNest    == 3      \* on_finished calls nested on one thread's stack
MaxDepth   == 1      \* nesting depth of callables scheduled from callables
MaxRuns    == 2      \* a scheduled callable is entered at most MaxRuns times
MaxIdle    == 22     \* empty dispatch iterations counted per worker
MaxSize    == 9      \* promise sizes sz are 1 .. MaxSize
MaxAddr    == 32     \* addresses a memory resource hands out are below MaxAddr
MaxMr      == 2      \* memory resources
SizeBits   == 12     \* width of std::size_t in the model

\* constexpr uint32_t NOOP = 20
NOOP == 20

\* alignof(std::pmr::memory_resource*) and sizeof(std::pmr::memory_resource*)
PtrAlign == 8
PtrSize  == 8

\* --------------------------------------------------------------- constants
NULL == 0            \* nullptr
ANY  == -1           \* m_thread_index = -1: any worker

Workers    == 0 .. (MaxWorkers - 1)      \* worker indices
MainThread == MaxWorkers                 \* the thread that constructed the pool
Threads    == 0 .. MaxWorkers
Nodes      == 1 .. MaxNodes
NodeOrNull == 0 .. MaxNodes
Closures   == 1 .. MaxSched              \* identities of scheduled callables

\* Queue identities: m_local_queues[i] is i, then the central queue, then
\* the recycler.
Central == MaxWorkers
Recycle == MaxWorkers + 1
Queues  == 0 .. (MaxWorkers + 1)
LocalQ(i) == i
\* per-worker queues built as JobQueue<Job_base, false>: no queue is FIFO
IsFifo_Never(q) == FALSE

\* template parameter FIFO of JobQueue: true for the per-worker queues only
IsFifo(q) == q < MaxWorkers

VARIABLES
    \* ---- Job_base / Job fields, one entry per node slot
    kind,            \* "free" (not allocated), "job", "coro"
    m_next,
    m_children,
    m_parent,
    m_thread_index,
    m_continuation,
    m_function,      \* closure installed in a Job (0: the empty function)
    coro,            \* Coro_promise: coroutine state, rest of the body, m_value
    \* ---- JobQueue::m_head of every queue
    m_head,
    \* ---- JobSystem
    m_thread_count,
    m_terminate,
    thread_counter,  \* static local of thread_task
    m_start_idx,
    nqueues,         \* m_local_queues.size()
    m_threads,       \* per element: worker index of the thread, detached or joinable
    heap,            \* promise allocations: blocks, stamped pointers, last deallocate
    \* ---- threads
    pc,
    m_current_job,   \* thread_local
    loc,             \* thread_local m_thread_index and the stack frames
    \* ---- user code and observation
    env,             \* what user code is still going to do
    hist             \* history of the run (observation only)

nodeVars   == <<kind, m_next, m_children, m_parent, m_thread_index, m_continuation, m_function>>
poolVars   == <<m_thread_count, m_terminate, thread_counter, m_start_idx, nqueues, m_threads, heap>>
threadVars == <<pc, m_current_job, loc>>
vars == <<nodeVars, coro, m_head, poolVars, threadVars, env, hist>>

\* ------------------------------------------------------------ thread frame
\* q, head, nxt: JobQueue::push / pop;  job: the node being scheduled;
\* res: value returned by pop;  ret: where the call returns to;
\* fin: Jobs whose on_finished is on this thread's stack (innermost last);
\* tidx: thread_local m_thread_index;  f: closure being executed;
\* ti: thread_index argument of schedule;  newf: closure being scheduled;
\* sret, fret: where schedule and the outermost on_finished return to;
\* kids: the coroutines an await still has to schedule, each with the number
\* it adds to the parent's counter;  par: parent argument of schedule(coro);
\* final: the notification comes from the final awaiter;
\* retried: the compare-exchange of the running pop has failed (observation);
\* noop: thread_local uint32_t noop of thread_task, as a 32-bit pattern read
\* in two's complement (-1 is 0xFFFFFFFF)
Frame0 ==
    [q |-> 0, head |-> NULL, nxt |-> NULL, job |-> NULL, res |-> NULL,
     ret |-> "", fin |-> <<>>, tidx |-> 0, f |-> 0, ti |-> ANY,
     newf |-> 0, sret |-> "", fret |-> "", kids |-> <<>>, par |-> NULL, final |-> FALSE,
     retried |-> FALSE, noop |-> NOOP]

\* ------------------------------------------------------------- observation
\* Per closure u (one scheduling of a callable):
\*   parent[u]  closure whose body made the schedule call (0: none)
\*   depth[u]   nesting depth
\*   slot[u]    node that carries it
\*   ran[u]     number of times its body was entered
\*   ret[u]     number of times its body returned
\*   fin[u]     number of times on_finished fired for it
\*   inc[u]     1 once its parent's counter was incremented for it
\*   dec[u]     number of decrements of a parent's counter on its behalf
\*   cont[u]    closure of the Job its body installed as m_continuation (0: none)
\*   cpush[u]   number of times its on_finished scheduled its continuation
\*   rec[u]     number of times its on_finished called recycle(this)
\*   returned   wait_for_termination has returned
\* Per worker inbox q:
\*   order[q]   the nodes in it, in the order their pushes took effect
\*   late       some pop of an inbox returned a node that was not the oldest
\*   lateClean  ... and did so without a failed compare-exchange
\*   cleared    the nodes clear() found linked in a queue
\*   threw      an exception has left a body
\*   made       the promises of the Coro objects the constructing thread
\*              created, in order;  held: those whose Coro object is alive
\* Per promise n:
\*   expect[n]  what the coroutines of its last co_await store last, added up
\*   resched[n] how often a child has scheduled it since its last co_await
\*   got[n]     what its body read with get() from them, added up, one
\*              entry for each time it did
\*   await[n]   the children scheduled by n's last await that have not yet
\*              run their yield or final notification
\* Job_base::is_job
IsJob(n) == kind[n] = "job"

\* a thread that goes through a null or dangling pointer ends the process
Crashed == [t \in Threads |-> "crashed"]

\* a failure that is swallowed: the worker goes on with its loop
Unhandled_Ignored(t) == [pc EXCEPT ![t] = "tt_loop"]

\* An exception leaves a body on thread t: unhandled_exception calls
\* std::terminate, and so does the noexcept operator() of Job_base
Unhandled(t) == Crashed

\* the observation counters stop at MaxRuns
Cap(n) == IF n > MaxRuns THEN MaxRuns ELSE n

Hist0 ==
    [parent |-> [u \in Closures |-> 0],
     depth  |-> [u \in Closures |-> 0],
     slot   |-> [u \in Closures |-> NULL],
     ran    |-> [u \in Closures |-> 0],
     ret    |-> [u \in Closures |-> 0],
     fin    |-> [u \in Closures |-> 0],
     inc    |-> [u \in Closures |-> 0],
     dec    |-> [u \in Closures |-> 0],
     cont   |-> [u \in Closures |-> 0],
     cpush  |-> [u \in Closures |-> 0],
     rec    |-> [u \in Closures |-> 0],
     ti     |-> [u \in Closures |-> ANY],
     call   |-> [t \in Threads |-> 0],
     entered |-> {},
     oob    |-> FALSE,
     left   |-> {},
     clearers |-> <<>>,
     idles  |-> [t \in Threads |-> 0],
     streak |-> [t \in Threads |-> 0],
     slept  |-> [t \in Threads |-> <<>>],
     await  |-> [n \in Nodes |-> {}],
     expect |-> [n \in Nodes |-> 0],
     got    |-> [n \in Nodes |-> <<>>],
     resched |-> [n \in Nodes |-> 0],
     returned |-> FALSE,
     made   |-> <<>>,
     threw  |-> FALSE,
     cleared |-> {},
     held   |-> {},
     order  |-> [q \in Workers |-> <<>>],
     late   |-> FALSE,
     lateClean |-> FALSE,
     inq    |-> [q \in Queues |-> <<>>],
     phantom |-> FALSE,
     nsched |-> 0]

Bump(h, fld, u) == IF u = 0 THEN h ELSE [h EXCEPT ![fld][u] = Cap(@ + 1)]

\* the sequence s without its first occurrence of n
RECURSIVE Remove(_, _)
Remove(s, n) ==
    IF s = <<>> THEN <<>>
    ELSE IF Head(s) = n THEN Tail(s) ELSE <<Head(s)>> \o Remove(Tail(s), n)

\* the worker inboxes the constructor made
IsInbox(q) == q < nqueues

\* observation of a push to q that took effect and of a pop that returned n:
\* inq[q] lists the nodes pushed to q and not yet returned by a pop of q,
\* phantom tells that a pop returned a node that was not among them
Pushed(h, q, n) ==
    IF IsInbox(q)
    THEN [h EXCEPT !.order[q] = Append(@, n), !.inq[q] = Append(@, n)]
    ELSE [h EXCEPT !.inq[q] = Append(@, n)]

Popped(h, q, n, clean) ==
    LET g == [h EXCEPT !.inq[q] = Remove(@, n),
                       !.phantom = @ \/ (\A i \in 1 .. Len(h.inq[q]) : h.inq[q][i] # n)]
    IN  IF IsInbox(q)
        THEN LET wrong == h.order[q] = <<>> \/ Head(h.order[q]) # n
             IN  [g EXCEPT !.order[q] = Remove(@, n),
                           !.late = @ \/ wrong,
                           !.lateClean = @ \/ (wrong /\ clean)]
        ELSE g

\* ------------------------------------------------------- JobQueue::push
\* pJob->m_next = m_head.load()
PushLoad(t) ==
    /\ pc[t] = "push_load"
    /\ m_next' = [m_next EXCEPT ![loc[t].job] = m_head[loc[t].q]]
    /\ pc' = [pc EXCEPT ![t] = "push_cas"]
    /\ UNCHANGED <<coro, kind, m_children, m_parent, m_thread_index, m_continuation, m_function,
                   m_head, poolVars, m_current_job, loc, env, hist>>

\* compare_exchange_weak(&m_head, &pJob->m_next, pJob): on failure the
\* expected value pJob->m_next is reloaded from m_head and the loop goes on
PushCas(t) ==
    /\ pc[t] = "push_cas"
    /\ LET q == loc[t].q
           j == loc[t].job
       IN  IF m_head[q] = m_next[j]
           THEN /\ m_head' = [m_head EXCEPT ![q] = j]
                /\ pc' = [pc EXCEPT ![t] = loc[t].ret]
                /\ loc' = [loc EXCEPT ![t].job = NULL, ![t].ret = ""]
                /\ hist' = Pushed(hist, q, j)
                /\ UNCHANGED m_next
           ELSE /\ m_next' = [m_next EXCEPT ![j] = m_head[q]]
                /\ UNCHANGED <<m_head, pc, loc, hist>>
    /\ UNCHANGED <<coro, kind, m_children, m_parent, m_thread_index, m_continuation, m_function,
                   poolVars, m_current_job, env>>

\* -------------------------------------------------------- JobQueue::pop
\* The node before the last one of the list that starts at h (h has a
\* successor); NULL when the walk does not end within the node slots.
RECURSIVE WalkLast(_, _)
WalkLast(h, fuel) ==
    IF fuel = 0 THEN NULL
    ELSE IF m_next[m_next[h]] = NULL THEN h
    ELSE WalkLast(m_next[h], fuel - 1)

\* head = m_head.load(); if (head == nullptr) return nullptr
PopLoad(t) ==
    /\ pc[t] = "pop_load"
    /\ LET h == m_head[loc[t].q]
       IN  IF h = NULL
           THEN /\ pc' = [pc EXCEPT ![t] = loc[t].ret]
                /\ loc' = [loc EXCEPT ![t].res = NULL, ![t].ret = ""]
           ELSE /\ pc' = [pc EXCEPT ![t] = "pop_next"]
                /\ loc' = [loc EXCEPT ![t].head = h]
    /\ UNCHANGED <<coro, nodeVars, m_head, poolVars, m_current_job, env, hist>>

\* FIFO with more than one node: walk to the last node and detach it.
\* Otherwise read head->m_next for the CAS.
PopNext(t) ==
    /\ pc[t] = "pop_next"
    /\ LET h == loc[t].head
       IN  IF IsFifo(loc[t].q) /\ m_next[h] # NULL
           THEN LET last == WalkLast(h, MaxNodes)
                IN  /\ last # NULL
                    /\ m_next' = [m_next EXCEPT ![last] = NULL]
                    /\ pc' = [pc EXCEPT ![t] = loc[t].ret]
                    /\ loc' = [loc EXCEPT ![t].res = m_next[last], ![t].head = NULL,
                                          ![t].ret = ""]
                    /\ hist' = Popped(hist, loc[t].q, m_next[last], TRUE)
           ELSE /\ pc' = [pc EXCEPT ![t] = "pop_cas"]
                /\ loc' = [loc EXCEPT ![t].nxt = m_next[h]]
                /\ UNCHANGED <<m_next, hist>>
    /\ UNCHANGED <<coro, kind, m_children, m_parent, m_thread_index, m_continuation, m_function,
                   m_head, poolVars, m_current_job, env>>

\* compare_exchange_weak(&m_head, &head, head->m_next): on failure head is
\* reloaded from m_head; the loop ends when head is null
PopCas(t) ==
    /\ pc[t] = "pop_cas"
    /\ LET q == loc[t].q
           h == loc[t].head
       IN  IF m_head[q] = h
           THEN /\ m_head' = [m_head EXCEPT ![q] = loc[t].nxt]
                /\ pc' = [pc EXCEPT ![t] = loc[t].ret]
                /\ loc' = [loc EXCEPT ![t].res = h, ![t].head = NULL, ![t].nxt = NULL,
                                      ![t].ret = ""]
                /\ hist' = Popped(hist, q, h, ~loc[t].retried)
           ELSE /\ UNCHANGED <<m_head, hist>>
                /\ IF m_head[q] = NULL
                   THEN /\ pc' = [pc EXCEPT ![t] = loc[t].ret]
                        /\ loc' = [loc EXCEPT ![t].res = NULL, ![t].head = NULL,
                                              ![t].nxt = NULL, ![t].ret = ""]
                   ELSE /\ pc' = [pc EXCEPT ![t] = "pop_reread"]
                        /\ loc' = [loc EXCEPT ![t].head = m_head[q], ![t].nxt = NULL,
                                              ![t].retried = TRUE]
    /\ UNCHANGED <<coro, nodeVars, poolVars, m_current_job, env>>

\* the argument head->m_next of the next CAS attempt
PopReread(t) ==
    /\ pc[t] = "pop_reread"
    /\ pc' = [pc EXCEPT ![t] = "pop_cas"]
    /\ loc' = [loc EXCEPT ![t].nxt = m_next[loc[t].head]]
    /\ UNCHANGED <<coro, nodeVars, m_head, poolVars, m_current_job, env, hist>>

\* ----------------------------------------------- calls into push and pop
CallPop(fr, q, ret)       == [fr EXCEPT !.q = q, !.ret = ret, !.res = NULL, !.retried = FALSE]
CallPush(fr, q, job, ret) == [fr EXCEPT !.q = q, !.job = job, !.ret = ret]

\* ------------------------------------------- JobSystem::schedule(Job_base*)
\* the queue a node with thread index ti goes to
RouteOf(ti) == IF ti >= 0 /\ ti < m_thread_count THEN LocalQ(ti) ELSE Central

\* -------------------------------------------------- JobSystem::thread_task
ThreadIndexArg(t) == IF t = MainThread THEN 0 ELSE t

\* m_thread_index = threadIndex; thread_counter--
TtEnter(t) ==
    /\ pc[t] = "tt_enter"
    /\ thread_counter' = thread_counter - 1
    /\ loc' = [loc EXCEPT ![t].tidx = ThreadIndexArg(t)]
    /\ pc' = [pc EXCEPT ![t] = "tt_barrier"]
    /\ hist' = [hist EXCEPT !.entered = @ \cup {t}]
    /\ UNCHANGED <<coro, nodeVars, m_head, m_thread_count, m_terminate, m_start_idx, nqueues, m_threads, heap,
                   m_current_job, env>>

\* a start that waits for nobody
BarrierOpen_Always == TRUE

\* the loop condition thread_counter.load() > 0 is false
BarrierOpen == thread_counter = 0

\* while (thread_counter.load() > 0) sleep
TtBarrier(t) ==
    /\ pc[t] = "tt_barrier"
    /\ BarrierOpen
    /\ pc' = [pc EXCEPT ![t] = "tt_loop"]
    /\ UNCHANGED <<coro, nodeVars, m_head, poolVars, m_current_job, loc, env, hist>>

\* while (!m_terminate) { m_current_job = m_local_queues[m_thread_index].pop(); ...
TtLoop(t) ==
    /\ pc[t] = "tt_loop"
    /\ IF m_terminate
       THEN /\ pc' = [pc EXCEPT ![t] = "tt_exit"]
            /\ UNCHANGED loc
       ELSE /\ pc' = [pc EXCEPT ![t] = "pop_load"]
            /\ loc' = [loc EXCEPT ![t] = CallPop(@, LocalQ(loc[t].tidx), "tt_local")]
    /\ UNCHANGED <<coro, nodeVars, m_head, poolVars, m_current_job, env, hist>>

\* if (!m_current_job) m_current_job = m_central_queue.pop()
TtLocal(t) ==
    /\ pc[t] = "tt_local"
    /\ m_current_job' = [m_current_job EXCEPT ![t] = loc[t].res]
    /\ IF loc[t].res = NULL
       THEN /\ pc' = [pc EXCEPT ![t] = "pop_load"]
            /\ loc' = [loc EXCEPT ![t] = CallPop(@, Central, "tt_central")]
       ELSE /\ pc' = [pc EXCEPT ![t] = "run"]
            /\ loc' = [loc EXCEPT ![t].res = NULL]
    /\ hist' = IF env.backoff /\ loc[t].res # NULL THEN [hist EXCEPT !.streak[t] = 0] ELSE hist
    /\ UNCHANGED <<coro, nodeVars, m_head, poolVars, env>>

\* --noop on a uint32_t
Dec32(v) == IF v = -2147483647 - 1 THEN 2147483647 ELSE v - 1

\* if (m_current_job) (*m_current_job)();
\* else if (--noop == 0 && m_thread_index > 0) { noop = NOOP; sleep_for(1us); }
\* The sleep changes no state. Programs with env.backoff follow noop for
\* MaxIdle empty iterations of a worker; the others leave it alone.
\* hist.streak counts the empty iterations since the worker last ran a node
\* or slept, hist.slept lists the streak of each sleep.
TtCentral(t) ==
    /\ pc[t] = "tt_central"
    /\ m_current_job' = [m_current_job EXCEPT ![t] = loc[t].res]
    /\ pc' = [pc EXCEPT ![t] = IF loc[t].res = NULL THEN "tt_loop" ELSE "run"]
    /\ IF ~env.backoff
       THEN /\ loc' = [loc EXCEPT ![t].res = NULL]
            /\ UNCHANGED hist
       ELSE IF loc[t].res # NULL
       THEN /\ loc' = [loc EXCEPT ![t].res = NULL]
            /\ hist' = [hist EXCEPT !.streak[t] = 0]
       ELSE /\ hist.idles[t] < MaxIdle
            /\ IF Dec32(loc[t].noop) = 0 /\ loc[t].tidx > 0
               THEN /\ loc' = [loc EXCEPT ![t].res = NULL, ![t].noop = NOOP]
                    /\ hist' = [hist EXCEPT !.idles[t] = @ + 1, !.streak[t] = 0,
                                            !.slept[t] = Append(@, hist.streak[t] + 1)]
               ELSE /\ loc' = [loc EXCEPT ![t].res = NULL, ![t].noop = Dec32(@)]
                    /\ hist' = [hist EXCEPT !.idles[t] = @ + 1, !.streak[t] = @ + 1]
    /\ UNCHANGED <<coro, nodeVars, m_head, poolVars, env>>

\* every worker that leaves clears the queues
LastOut_Any == TRUE

\* if (num == 1), num being the value fetch_sub(1) read
LastOut == m_thread_count = 1

\* num = m_thread_count.fetch_sub(1); the thread that reads 1 clears the queues
\* hist.left: the threads that left the loop; hist.clearers: those that clear
TtExit(t) ==
    /\ pc[t] = "tt_exit"
    /\ m_thread_count' = m_thread_count - 1
    /\ pc' = [pc EXCEPT ![t] = IF LastOut THEN "clear_central" ELSE "tt_done"]
    /\ hist' = [hist EXCEPT !.left = @ \cup {t},
                            !.clearers = IF LastOut THEN Append(@, t) ELSE @]
    /\ UNCHANGED <<coro, nodeVars, m_head, m_terminate, thread_counter, m_start_idx, nqueues, m_threads, heap,
                   m_current_job, loc, env>>

\* ------------------------------------------------------- JobQueue::clear
\* the nodes linked from head h
RECURSIVE Linked(_, _)
Linked(h, fuel) ==
    IF h = NULL \/ fuel = 0 THEN {} ELSE {h} \cup Linked(m_next[h], fuel - 1)

\* Job_base::deallocate: false; Job::deallocate: true
Deallocate(n) == kind[n] = "job"

\* walk the list, destroy and free every node whose deallocate() is true,
\* then m_head = nullptr
ClearQueue(q) ==
    LET gone == {n \in Linked(m_head[q], MaxNodes) : Deallocate(n)}
    IN  /\ kind' = [n \in Nodes |-> IF n \in gone THEN "free" ELSE kind[n]]
        /\ m_head' = [m_head EXCEPT ![q] = NULL]
        /\ hist' = [hist EXCEPT !.cleared = @ \cup Linked(m_head[q], MaxNodes),
                                !.inq[q] = <<>>]

ClearCentral(t) ==
    /\ pc[t] = "clear_central"
    /\ ClearQueue(Central)
    /\ pc' = [pc EXCEPT ![t] = "clear_recycle"]
    /\ UNCHANGED <<coro, m_next, m_children, m_parent, m_thread_index, m_continuation, m_function,
                   poolVars, m_current_job, loc, env>>

ClearRecycle(t) ==
    /\ pc[t] = "clear_recycle"
    /\ ClearQueue(Recycle)
    /\ pc' = [pc EXCEPT ![t] = "clear_local"]
    /\ loc' = [loc EXCEPT ![t].q = 0]
    /\ UNCHANGED <<coro, m_next, m_children, m_parent, m_thread_index, m_continuation, m_function,
                   poolVars, m_current_job, env>>

\* for (auto& q : m_local_queues) q.clear()
ClearLocal(t) ==
    /\ pc[t] = "clear_local"
    /\ IF loc[t].q < nqueues
       THEN /\ ClearQueue(LocalQ(loc[t].q))
            /\ loc' = [loc EXCEPT ![t].q = @ + 1]
            /\ UNCHANGED pc
       ELSE /\ pc' = [pc EXCEPT ![t] = "tt_done"]
            /\ loc' = [loc EXCEPT ![t].q = 0]
            /\ UNCHANGED <<kind, m_head, hist>>
    /\ UNCHANGED <<coro, m_next, m_children, m_parent, m_thread_index, m_continuation, m_function,
                   poolVars, m_current_job, env>>

\* ---------------------------------------------------- Job::on_finished
\* an on_finished that forgets the continuation
FinEntry_NoContinuation(j) == IF m_parent[j] # NULL THEN "fin_parent" ELSE "fin_recycle"

\* First step of on_finished for Job j: the continuation branch when there
\* is a continuation, else the parent notification, else recycle(this).
FinEntry(j) ==
    IF m_continuation[j] # NULL
    THEN (IF m_parent[j] # NULL THEN "fin_cinc" ELSE "fin_csched")
    ELSE (IF m_parent[j] # NULL THEN "fin_parent" ELSE "fin_recycle")

\* the Job whose on_finished is the innermost call on t's stack
FinJob(t) == loc[t].fin[Len(loc[t].fin)]

\* ---------------------------------------------------------- Job::resume
\* m_children = 1; the call of m_function starts
JobResume(t) ==
    /\ pc[t] = "run"
    /\ kind[m_current_job[t]] = "job"
    /\ m_function[m_current_job[t]] = 0 \/ hist.ran[m_function[m_current_job[t]]] < MaxRuns
    /\ m_children' = [m_children EXCEPT ![m_current_job[t]] = 1]
    /\ loc' = [loc EXCEPT ![t].f = m_function[m_current_job[t]]]
    /\ hist' = Bump(hist, "ran", m_function[m_current_job[t]])
    /\ pc' = [pc EXCEPT ![t] = "job_body"]
    /\ UNCHANGED <<coro, kind, m_next, m_parent, m_thread_index, m_continuation, m_function,
                   m_head, poolVars, m_current_job, env>>

\* the body being run still has its schedule call to make
MustSpawn(t) ==
    /\ pc[t] = "job_body"
    /\ loc[t].f \in env.spawners
    /\ hist.depth[loc[t].f] < MaxDepth
    /\ hist.nsched < MaxSched

\* the closure is the body of a Job that was installed as a continuation
IsCont(u) == \E a \in Closures : hist.cont[a] = u

\* the body being run still has to install its continuation: in programs
\* with env.cont the callables of depth env.contDepth do so (1: those
\* scheduled from a body of depth 0)
MustContinue(t) ==
    /\ pc[t] = "job_body"
    /\ env.cont
    /\ hist.depth[loc[t].f] = env.contDepth /\ ~IsCont(loc[t].f) /\ hist.cont[loc[t].f] = 0
    /\ hist.nsched < MaxSched
    /\ \E n \in Nodes : kind[n] = "free"

\* the callable returns
JobReturn(t) ==
    /\ \/ pc[t] = "sch_body"
       \/ pc[t] = "job_body" /\ ~MustSpawn(t) /\ ~MustContinue(t) /\ loc[t].f \notin env.fail
    /\ hist' = Bump(hist, "ret", loc[t].f)
    /\ pc' = [pc EXCEPT ![t] = "job_dec"]
    /\ UNCHANGED <<coro, nodeVars, m_head, poolVars, m_current_job, loc, env>>

\* the callable throws: the exception leaves m_function() and Job::resume
JobThrow(t) ==
    /\ pc[t] = "job_body"
    /\ loc[t].f \in env.fail
    /\ hist' = [hist EXCEPT !.threw = TRUE]
    /\ pc' = Unhandled(t)
    /\ UNCHANGED <<coro, nodeVars, m_head, poolVars, m_current_job, loc, env>>

\* num = m_children.fetch_sub(1); if (num == 1) on_finished()
JobDec(t) ==
    /\ pc[t] = "job_dec"
    /\ LET j == m_current_job[t]
       IN  /\ m_children' = [m_children EXCEPT ![j] = @ - 1]
           /\ IF m_children[j] = 1
              THEN /\ loc' = [loc EXCEPT ![t].fin = <<j>>, ![t].fret = "tt_loop", ![t].f = 0]
                   /\ hist' = Bump(hist, "fin", m_function[j])
                   /\ pc' = [pc EXCEPT ![t] = FinEntry(j)]
              ELSE /\ loc' = [loc EXCEPT ![t].f = 0]
                   /\ pc' = [pc EXCEPT ![t] = "tt_loop"]
                   /\ UNCHANGED hist
    /\ UNCHANGED <<coro, kind, m_next, m_parent, m_thread_index, m_continuation, m_function,
                   m_head, poolVars, m_current_job, env>>

\* m_parent->m_children++; m_continuation->m_parent = m_parent
FinContInc(t) ==
    /\ pc[t] = "fin_cinc"
    /\ LET j == FinJob(t)
       IN  /\ m_children' = [m_children EXCEPT ![m_parent[j]] = @ + 1]
           /\ m_parent' = [m_parent EXCEPT ![m_continuation[j]] = m_parent[j]]
    /\ pc' = [pc EXCEPT ![t] = "fin_csched"]
    /\ UNCHANGED <<coro, kind, m_next, m_thread_index, m_continuation, m_function,
                   m_head, poolVars, m_current_job, loc, env, hist>>

\* JobSystem::instance()->schedule(m_continuation)
FinContSchedule(t) ==
    /\ pc[t] = "fin_csched"
    /\ LET c == m_continuation[FinJob(t)]
       IN  loc' = [loc EXCEPT ![t] = CallPush(@, RouteOf(m_thread_index[c]), c, "fin_cdone")]
    /\ hist' = Bump(hist, "cpush", m_function[FinJob(t)])
    /\ pc' = [pc EXCEPT ![t] = "push_load"]
    /\ UNCHANGED <<coro, nodeVars, m_head, poolVars, m_current_job, env>>

\* if (m_parent != nullptr) after the continuation was scheduled
FinContDone(t) ==
    /\ pc[t] = "fin_cdone"
    /\ pc' = [pc EXCEPT ![t] = IF m_parent[FinJob(t)] # NULL THEN "fin_parent"
                                ELSE "fin_recycle"]
    /\ UNCHANGED <<coro, nodeVars, m_head, poolVars, m_current_job, loc, env, hist>>

\* m_parent->child_finished() with a Job as parent (Job::child_finished):
\* num = m_children.fetch_sub(1); if (num == 1) on_finished().
\* When m_parent was overwritten since the test (the slot was reused while
\* this on_finished was running) the call goes through a null pointer.
FinParent(t) ==
    /\ pc[t] = "fin_parent"
    /\ LET p == m_parent[FinJob(t)]
       IN  IF p = NULL \/ ~IsJob(p)
           THEN /\ pc' = Crashed
                /\ UNCHANGED <<m_children, loc, hist>>
           ELSE /\ m_children[p] > -MaxUnder
                /\ Len(loc[t].fin) < MaxNest
                /\ m_children' = [m_children EXCEPT ![p] = @ - 1]
                /\ IF m_children[p] = 1
                   THEN /\ loc' = [loc EXCEPT ![t].fin = Append(@, p)]
                        /\ hist' = Bump(Bump(hist, "dec", m_function[FinJob(t)]),
                                        "fin", m_function[p])
                        /\ pc' = [pc EXCEPT ![t] = FinEntry(p)]
                   ELSE /\ pc' = [pc EXCEPT ![t] = "fin_recycle"]
                        /\ hist' = Bump(hist, "dec", m_function[FinJob(t)])
                        /\ UNCHANGED loc
    /\ UNCHANGED <<coro, kind, m_next, m_parent, m_thread_index, m_continuation, m_function,
                   m_head, poolVars, m_current_job, env>>

\* recycle(this): m_recycle.push(job)
FinRecycle(t) ==
    /\ pc[t] = "fin_recycle"
    /\ loc' = [loc EXCEPT ![t] = CallPush(@, Recycle, FinJob(t), "fin_ret")]
    /\ hist' = Bump(hist, "rec", m_function[FinJob(t)])
    /\ pc' = [pc EXCEPT ![t] = "push_load"]
    /\ UNCHANGED <<coro, nodeVars, m_head, poolVars, m_current_job, env>>

\* on_finished returns: into the on_finished of the child that notified
\* (which goes on to recycle itself), or to the caller of the outermost one
FinReturn(t) ==
    /\ pc[t] = "fin_ret"
    /\ LET rest == SubSeq(loc[t].fin, 1, Len(loc[t].fin) - 1)
       IN  IF rest = <<>>
           THEN /\ pc' = [pc EXCEPT ![t] = loc[t].fret]
                /\ loc' = [loc EXCEPT ![t].fin = <<>>, ![t].fret = ""]
           ELSE /\ pc' = [pc EXCEPT ![t] = "fin_recycle"]
                /\ loc' = [loc EXCEPT ![t].fin = rest]
    /\ UNCHANGED <<coro, nodeVars, m_head, poolVars, m_current_job, env, hist>>

\* ------------------------------- JobSystem::schedule(std::function, int32_t)
\* user code calls schedule(f, ti): Job* job = m_recycle.pop() starts
ScheduleCall(t, at, ti) ==
    /\ hist.nsched < MaxSched
    /\ LET u == hist.nsched + 1
       IN  /\ hist' = [hist EXCEPT !.nsched = u, !.ti[u] = ti, !.call[t] = u,
                                   !.parent[u] = loc[t].f,
                                   !.depth[u] = IF loc[t].f = 0 THEN 0
                                                ELSE hist.depth[loc[t].f] + 1]
           /\ loc' = [loc EXCEPT ![t] = [CallPop(@, Recycle, "sch_got")
                                          EXCEPT !.newf = u, !.ti = ti, !.sret = at]]
    /\ pc' = [pc EXCEPT ![t] = "pop_load"]
    /\ UNCHANGED <<coro, nodeVars, m_head, poolVars, m_current_job>>

\* a Job body calls schedule(f, thread_index)
JobSchedule(t) ==
    /\ MustSpawn(t)
    /\ ScheduleCall(t, "sch_body", env.spawnTi)
    /\ UNCHANGED env

\* a Job body installs a continuation: user code constructs a Job around a
\* callable (Job::Job, m_children = 0, no parent, thread_index -1) and
\* stores it in m_continuation of the Job it runs in, current_job().  The
\* fields are public: the user code leaves m_parent null or writes
\* current_job() into it.
JobContinuation(t) ==
    /\ MustContinue(t)
    /\ LET j == m_current_job[t]
           c == CHOOSE n \in Nodes : kind[n] = "free" /\ \A k \in Nodes : kind[k] = "free" => n <= k
           u == hist.nsched + 1
       IN  /\ kind' = [kind EXCEPT ![c] = "job"]
           /\ m_next' = [m_next EXCEPT ![c] = NULL]
           /\ m_children' = [m_children EXCEPT ![c] = 0]
           /\ \E q \in {NULL, j} : m_parent' = [m_parent EXCEPT ![c] = q]
           /\ m_thread_index' = [m_thread_index EXCEPT ![c] = ANY]
           /\ m_function' = [m_function EXCEPT ![c] = u]
           /\ m_continuation' = [m_continuation EXCEPT ![c] = NULL, ![j] = c]
           /\ hist' = [hist EXCEPT !.nsched = u, !.cont[loc[t].f] = u, !.slot[u] = c,
                                   !.depth[u] = hist.depth[loc[t].f]]
    /\ pc' = [pc EXCEPT ![t] = "sch_body"]
    /\ UNCHANGED <<coro, m_head, poolVars, m_current_job, loc, env>>

\* the smallest free node slot (the memory resource's next allocation)
FreshNode == CHOOSE n \in Nodes : kind[n] = "free" /\ \A k \in Nodes : kind[k] = "free" => n <= k

\* no slot popped: allocate and construct a Job; else job->reset() and
\* m_function = f.  Then job->m_parent = current_job().
ScheduleGot(t) ==
    /\ pc[t] = "sch_got"
    /\ loc[t].res # NULL \/ \E n \in Nodes : kind[n] = "free"
    /\ LET j == IF loc[t].res # NULL THEN loc[t].res ELSE FreshNode
           p == m_current_job[t]
       IN  /\ kind' = [kind EXCEPT ![j] = "job"]
           /\ m_next' = [m_next EXCEPT ![j] = NULL]
           /\ m_parent' = [m_parent EXCEPT ![j] = p]
           /\ m_thread_index' = [m_thread_index EXCEPT ![j] = ANY]
           /\ m_continuation' = [m_continuation EXCEPT ![j] = NULL]
           /\ m_function' = [m_function EXCEPT ![j] = loc[t].newf]
           /\ m_children' = IF loc[t].res # NULL THEN m_children
                            ELSE [m_children EXCEPT ![j] = 0]
           /\ hist' = [hist EXCEPT !.slot[loc[t].newf] = j]
           /\ loc' = [loc EXCEPT ![t].job = j, ![t].res = NULL]
           /\ pc' = [pc EXCEPT ![t] = IF p # NULL THEN "sch_inc" ELSE "sch_route"]
    /\ UNCHANGED <<coro, m_head, poolVars, m_current_job, env>>

\* job->m_parent->m_children++
ScheduleInc(t) ==
    /\ pc[t] = "sch_inc"
    /\ m_children' = [m_children EXCEPT ![m_parent[loc[t].job]] = @ + 1]
    /\ hist' = [hist EXCEPT !.inc[loc[t].newf] = 1]
    /\ pc' = [pc EXCEPT ![t] = "sch_route"]
    /\ UNCHANGED <<coro, kind, m_next, m_parent, m_thread_index, m_continuation, m_function,
                   m_head, poolVars, m_current_job, loc, env>>

\* job->m_thread_index = thread_index; schedule(job) compares it with
\* m_thread_count and picks the queue
ScheduleRoute(t) ==
    /\ pc[t] = "sch_route"
    /\ m_thread_index' = [m_thread_index EXCEPT ![loc[t].job] = loc[t].ti]
    /\ loc' = [loc EXCEPT ![t] = [CallPush(@, RouteOf(loc[t].ti), loc[t].job, loc[t].sret)
                                   EXCEPT !.newf = 0, !.ti = ANY, !.sret = ""]]
    /\ pc' = [pc EXCEPT ![t] = "push_load"]
    /\ UNCHANGED <<coro, kind, m_next, m_children, m_parent, m_continuation, m_function,
                   m_head, poolVars, m_current_job, env, hist>>

\* ------------------------------------------------------------ Coro_promise
\* state: "suspended" (initial_suspend, or after an await or a yield),
\*        "running", "final" (the body returned)
\* body:  what the coroutine body still does, a sequence of operations
\* value: *m_value, 0 for std::nullopt; the optional is shared with the
\*        Coro objects and outlives the frame
\* kids:  the Coro objects of the last co_await, kept in the frame
\* want:  the worker the last migration asked for;  on: the worker that
\*        resumed it last                                  (observation)
Coro0 == [state |-> "none", body |-> <<>>, value |-> 0, want |-> ANY, on |-> ANY, kids |-> <<>>]

\* operations of a coroutine body
OpAwait(vecs) == [op |-> "await", vecs |-> vecs, k |-> ANY, v |-> 0]
OpMigrate(k)  == [op |-> "migrate", vecs |-> <<>>, k |-> k, v |-> 0]
OpYield(v)    == [op |-> "yield", vecs |-> <<>>, k |-> ANY, v |-> v]
OpReturn(v)   == [op |-> "return", vecs |-> <<>>, k |-> ANY, v |-> v]
\* the body adds up get() of the coroutines it awaited last
OpGet         == [op |-> "get", vecs |-> <<>>, k |-> ANY, v |-> 0]
\* the body throws
OpThrow       == [op |-> "throw", vecs |-> <<>>, k |-> ANY, v |-> 0]
\* co_await of the Coro object awaited last, once more
OpAgain       == [op |-> "again", vecs |-> <<>>, k |-> ANY, v |-> 0]
\* a coroutine call f(args)(thread_index): its body and Coro::operator()
Call(body, ti) == [body |-> body, ti |-> ti]

RECURSIVE Flatten(_)
Flatten(vecs) == IF vecs = <<>> THEN <<>> ELSE Head(vecs) \o Flatten(Tail(vecs))

FreeNodes == {n \in Nodes : kind[n] = "free"}
\* the i-th smallest free node slot
RECURSIVE NthFree(_, _)
NthFree(S, i) ==
    LET m == CHOOSE n \in S : \A k \in S : n <= k
    IN  IF i = 1 THEN m ELSE NthFree(S \ {m}, i - 1)

\* the value the last operation of each body stores, added up
RECURSIVE SumStored(_)
SumStored(cs) ==
    IF cs = <<>> THEN 0 ELSE cs[1].body[Len(cs[1].body)].v + SumStored(Tail(cs))

\* children are scheduled one by one, each adding 1
AddOf_Each(vecs, i) == 1

\* awaitable_tuple::await_suspend hands the total to the schedule of the
\* first vector and 0 to the others; schedule(vector, parent, children)
\* adds its number before the first coroutine of the vector is enqueued
AddOf(vecs, i) == IF i = 1 THEN Len(Flatten(vecs)) ELSE 0

\* Coro_promise::resume: *m_value = std::nullopt; if (coro && !coro.done())
\* coro.resume().  Resuming a coroutine that is not suspended (another
\* worker is inside its body) is undefined: the process ends, or both
\* workers go on in the same body.
CoroResume(t) ==
    /\ pc[t] = "run"
    /\ kind[m_current_job[t]] = "coro"
    /\ LET c == m_current_job[t]
       IN  CASE coro[c].state = "suspended" ->
                  /\ coro' = [coro EXCEPT ![c].value = 0, ![c].state = "running",
                                          ![c].on = loc[t].tidx]
                  /\ pc' = [pc EXCEPT ![t] = "coro_step"]
             [] coro[c].state = "final" ->
                  /\ coro' = [coro EXCEPT ![c].value = 0]
                  /\ pc' = [pc EXCEPT ![t] = "tt_loop"]
             [] OTHER ->
                  /\ \/ pc' = Crashed
                     \/ pc' = [pc EXCEPT ![t] = "coro_step"]
                  /\ UNCHANGED coro
    /\ UNCHANGED <<nodeVars, m_head, poolVars, m_current_job, loc, env, hist>>

\* the operation the body of the running coroutine is at; "gone" when the
\* frame has been left or destroyed by another worker in the same body
CoroOp(t) ==
    IF coro[m_current_job[t]].body = <<>>
    THEN [op |-> "gone", vecs |-> <<>>, k |-> ANY, v |-> 0]
    ELSE Head(coro[m_current_job[t]].body)

\* (*m_current_job)() on a node whose memory was given back: the call goes
\* through a dangling pointer.  The process ends, or the stale frame still
\* reads as done() and the call returns.  A worker whose coroutine frame
\* was destroyed under it runs freed code.
RunFreed(t) ==
    /\ \/ /\ pc[t] = "run"
          /\ kind[m_current_job[t]] = "free"
          /\ \/ pc' = Crashed
             \/ pc' = [pc EXCEPT ![t] = "tt_loop"]
       \/ /\ pc[t] = "coro_step"
          /\ CoroOp(t).op = "gone"
          /\ pc' = Crashed
    /\ UNCHANGED <<coro, nodeVars, m_head, poolVars, m_current_job, loc, env, hist>>

\* co_await of a coroutine, a vector of coroutines or a tuple of vectors:
\* await_ready is true for no children at all; else the body suspends and
\* await_suspend starts to schedule the children
CoroAwait(t) ==
    /\ pc[t] = "coro_step"
    /\ CoroOp(t).op = "await"
    /\ LET p    == m_current_job[t]
           cs   == Flatten(CoroOp(t).vecs)
           N    == Len(cs)
           node(i) == NthFree(FreeNodes, i)
       IN  IF N = 0
           THEN /\ coro' = [coro EXCEPT ![p].body = Tail(@)]
                /\ UNCHANGED <<kind, m_next, m_children, m_parent, m_thread_index,
                               m_continuation, m_function, pc, loc, hist>>
           ELSE /\ Cardinality(FreeNodes) >= N
                /\ LET new == {node(i) : i \in 1 .. N}
                       idx(n) == CHOOSE i \in 1 .. N : node(i) = n
                   IN  /\ kind' = [n \in Nodes |-> IF n \in new THEN "coro" ELSE kind[n]]
                       /\ m_next' = [n \in Nodes |-> IF n \in new THEN NULL ELSE m_next[n]]
                       /\ m_children' = [n \in Nodes |-> IF n \in new THEN 0 ELSE m_children[n]]
                       /\ m_parent' = [n \in Nodes |-> IF n \in new THEN NULL ELSE m_parent[n]]
                       /\ m_thread_index' = [n \in Nodes |->
                              IF n \in new THEN cs[idx(n)].ti ELSE m_thread_index[n]]
                       /\ coro' = [n \in Nodes |->
                              IF n \in new
                              THEN [Coro0 EXCEPT !.state = "suspended", !.body = cs[idx(n)].body]
                              ELSE IF n = p
                              THEN [coro[p] EXCEPT !.state = "suspended", !.body = Tail(@),
                                                   !.want = ANY,
                                                   !.kids = [i \in 1 .. N |-> node(i)]]
                              ELSE coro[n]]
                       /\ hist' = [hist EXCEPT !.await[p] = new, !.expect[p] = SumStored(cs),
                                                !.resched[p] = 0]
                       /\ loc' = [loc EXCEPT ![t].kids =
                                      [i \in 1 .. N |-> [n |-> node(i), add |-> AddOf(CoroOp(t).vecs, i)]],
                                             ![t].par = p, ![t].sret = "tt_loop"]
                       /\ pc' = [pc EXCEPT ![t] = "cs_add"]
                       /\ UNCHANGED <<m_continuation, m_function>>
    /\ UNCHANGED <<m_head, poolVars, m_current_job, env>>

\* co_await of a Coro object that was awaited before and has yielded:
\* the body suspends and await_suspend schedules its promise again
CoroAgain(t) ==
    /\ pc[t] = "coro_step"
    /\ CoroOp(t).op = "again"
    /\ LET p == m_current_job[t]
       IN  /\ coro' = [coro EXCEPT ![p].state = "suspended", ![p].body = Tail(@), ![p].want = ANY]
           /\ hist' = [hist EXCEPT !.await[p] = {coro[p].kids[i] : i \in 1 .. Len(coro[p].kids)},
                                   !.resched[p] = 0]
           /\ loc' = [loc EXCEPT ![t].kids = [i \in 1 .. Len(coro[p].kids) |->
                                                [n |-> coro[p].kids[i], add |-> 1]],
                                 ![t].par = p, ![t].sret = "tt_loop"]
    /\ pc' = [pc EXCEPT ![t] = "cs_add"]
    /\ UNCHANGED <<nodeVars, m_head, poolVars, m_current_job, env>>

\* schedule(coro, parent, children): parent->m_children.fetch_add(children)
CoroSchedAdd(t) ==
    /\ pc[t] = "cs_add"
    /\ m_children' = [m_children EXCEPT ![loc[t].par] = @ + Head(loc[t].kids).add]
    /\ pc' = [pc EXCEPT ![t] = "cs_route"]
    /\ UNCHANGED <<coro, kind, m_next, m_parent, m_thread_index, m_continuation, m_function,
                   m_head, poolVars, m_current_job, loc, env, hist>>

\* coro.promise()->m_parent = parent; JobSystem::instance()->schedule(coro.promise())
CoroSchedRoute(t) ==
    /\ pc[t] = "cs_route"
    /\ LET c == Head(loc[t].kids).n
       IN  /\ m_parent' = [m_parent EXCEPT ![c] = loc[t].par]
           /\ loc' = [loc EXCEPT ![t] = CallPush(@, RouteOf(m_thread_index[c]), c, "cs_next")]
    /\ pc' = [pc EXCEPT ![t] = "push_load"]
    /\ UNCHANGED <<coro, kind, m_next, m_children, m_thread_index, m_continuation, m_function,
                   m_head, poolVars, m_current_job, env, hist>>

\* the next coroutine of the vector, or schedule returns
CoroSchedNext(t) ==
    /\ pc[t] = "cs_next"
    /\ LET rest == Tail(loc[t].kids)
       IN  IF rest = <<>>
           THEN /\ pc' = [pc EXCEPT ![t] = loc[t].sret]
                /\ loc' = [loc EXCEPT ![t].kids = <<>>, ![t].par = NULL, ![t].sret = ""]
           ELSE /\ pc' = [pc EXCEPT ![t] = IF loc[t].par # NULL THEN "cs_add" ELSE "cs_route"]
                /\ loc' = [loc EXCEPT ![t].kids = rest]
    /\ UNCHANGED <<coro, nodeVars, m_head, poolVars, m_current_job, env, hist>>

\* an await_ready that always asks for the suspension
MigrateReady_Never(t) == FALSE

\* awaitable_resume_on::awaiter::await_ready:
\* m_thread_index == JobSystem::instance()->thread_index()
MigrateReady(t) == CoroOp(t).k = loc[t].tidx

\* co_await k (awaitable_resume_on): await_ready is true on worker k; else
\* the body suspends, m_thread_index = k and the promise is scheduled
CoroMigrate(t) ==
    /\ pc[t] = "coro_step"
    /\ CoroOp(t).op = "migrate"
    /\ LET p == m_current_job[t]
           k == CoroOp(t).k
       IN  IF MigrateReady(t)
           THEN /\ coro' = [coro EXCEPT ![p].body = Tail(@)]
                /\ UNCHANGED <<m_thread_index, pc, loc>>
           ELSE /\ coro' = [coro EXCEPT ![p].body = Tail(@), ![p].state = "suspended",
                                        ![p].want = k]
                /\ m_thread_index' = [m_thread_index EXCEPT ![p] = k]
                /\ loc' = [loc EXCEPT ![t] = CallPush(@, RouteOf(k), p, "tt_loop")]
                /\ pc' = [pc EXCEPT ![t] = "push_load"]
    /\ UNCHANGED <<kind, m_next, m_children, m_parent, m_continuation, m_function,
                   m_head, poolVars, m_current_job, env, hist>>

\* Coro::get on every coroutine awaited last: *m_value, added up
RECURSIVE SumGet(_)
SumGet(ks) == IF ks = <<>> THEN 0 ELSE coro[Head(ks)].value + SumGet(Tail(ks))

CoroGet(t) ==
    /\ pc[t] = "coro_step"
    /\ CoroOp(t).op = "get"
    /\ coro' = [coro EXCEPT ![m_current_job[t]].body = Tail(@)]
    /\ hist' = [hist EXCEPT !.got[m_current_job[t]] = Append(@, SumGet(coro[m_current_job[t]].kids))]
    /\ UNCHANGED <<nodeVars, m_head, poolVars, threadVars, env>>

\* an exception leaves the coroutine body: Coro_promise_base::unhandled_exception
CoroThrow(t) ==
    /\ pc[t] = "coro_step"
    /\ CoroOp(t).op = "throw"
    /\ hist' = [hist EXCEPT !.threw = TRUE]
    /\ pc' = Unhandled(t)
    /\ UNCHANGED <<coro, nodeVars, m_head, poolVars, m_current_job, loc, env>>

\* co_yield v: yield_value stores v and the body suspends in yield_awaiter
CoroYield(t) ==
    /\ pc[t] = "coro_step"
    /\ CoroOp(t).op = "yield"
    /\ coro' = [coro EXCEPT ![m_current_job[t]].body = Tail(@),
                            ![m_current_job[t]].value = CoroOp(t).v,
                            ![m_current_job[t]].state = "suspended",
                            ![m_current_job[t]].want = ANY]
    /\ loc' = [loc EXCEPT ![t].final = FALSE]
    /\ pc' = [pc EXCEPT ![t] = "notify"]
    /\ UNCHANGED <<nodeVars, m_head, poolVars, m_current_job, env, hist>>

\* co_return v: return_value stores v and the body reaches final_suspend
CoroReturn(t) ==
    /\ pc[t] = "coro_step"
    /\ CoroOp(t).op = "return"
    /\ coro' = [coro EXCEPT ![m_current_job[t]].body = <<>>,
                            ![m_current_job[t]].value = CoroOp(t).v,
                            ![m_current_job[t]].state = "final",
                            ![m_current_job[t]].want = ANY]
    /\ loc' = [loc EXCEPT ![t].final = TRUE]
    /\ pc' = [pc EXCEPT ![t] = "notify"]
    /\ UNCHANGED <<nodeVars, m_head, poolVars, m_current_job, env, hist>>

\* where the thread goes when await_suspend of the yield or final awaiter
\* returns: final_awaiter returns false, so the body runs off its end and
\* the coroutine frame is destroyed
AfterNotify(t) == IF loc[t].final THEN "coro_destroy" ELSE "tt_loop"

\* yield_awaiter / final_awaiter ::await_suspend: a Job parent gets
\* child_finished; a coroutine parent gets m_children.fetch_sub(1) and is
\* scheduled by the child that reads 1
Notify(t) ==
    /\ pc[t] = "notify"
    /\ LET c == m_current_job[t]
           p == m_parent[c]
       IN  IF p = NULL
           THEN /\ pc' = [pc EXCEPT ![t] = AfterNotify(t)]
                /\ UNCHANGED <<m_children, loc, hist>>
           ELSE /\ m_children[p] > -MaxUnder
                /\ m_children' = [m_children EXCEPT ![p] = @ - 1]
                /\ IF IsJob(p)
                   THEN IF m_children[p] = 1
                        THEN /\ loc' = [loc EXCEPT ![t].fin = <<p>>, ![t].fret = AfterNotify(t)]
                             /\ hist' = Bump(hist, "fin", m_function[p])
                             /\ pc' = [pc EXCEPT ![t] = FinEntry(p)]
                        ELSE /\ pc' = [pc EXCEPT ![t] = AfterNotify(t)]
                             /\ UNCHANGED <<loc, hist>>
                   ELSE /\ hist' = [hist EXCEPT !.await[p] = @ \ {c}]
                        /\ pc' = [pc EXCEPT ![t] = IF m_children[p] = 1 THEN "notify_sched"
                                                    ELSE AfterNotify(t)]
                        /\ UNCHANGED loc
    /\ UNCHANGED <<coro, kind, m_next, m_parent, m_thread_index, m_continuation, m_function,
                   m_head, poolVars, m_current_job, env>>

\* JobSystem::instance()->schedule(promise.m_parent)
NotifySchedule(t) ==
    /\ pc[t] = "notify_sched"
    /\ LET p == m_parent[m_current_job[t]]
       IN  /\ loc' = [loc EXCEPT ![t] = CallPush(@, RouteOf(m_thread_index[p]), p, AfterNotify(t))]
           /\ hist' = [hist EXCEPT !.resched[p] = Cap(@ + 1)]
    /\ pc' = [pc EXCEPT ![t] = "push_load"]
    /\ UNCHANGED <<coro, nodeVars, m_head, poolVars, m_current_job, env>>

\* the coroutine frame is destroyed: ~Coro_promise and operator delete
CoroDestroy(t) ==
    /\ pc[t] = "coro_destroy"
    /\ kind' = [kind EXCEPT ![m_current_job[t]] = "free"]
    /\ coro' = [coro EXCEPT ![m_current_job[t]] = [Coro0 EXCEPT !.value = coro[m_current_job[t]].value]]
    /\ loc' = [loc EXCEPT ![t].final = FALSE]
    /\ pc' = [pc EXCEPT ![t] = "tt_loop"]
    /\ UNCHANGED <<m_next, m_children, m_parent, m_thread_index, m_continuation, m_function,
                   m_head, poolVars, m_current_job, env, hist>>

\* --------------------------------------------------- the constructing thread
\* The program of the constructing thread is a sequence of calls
NoCall == [body |-> <<>>, ti |-> ANY]
DoSchedule(ti) == [op |-> "schedule", ti |-> ti, call |-> NoCall]
DoCoro(call)   == [op |-> "coro", ti |-> ANY, call |-> call]
DoTerminate    == [op |-> "terminate", ti |-> ANY, call |-> NoCall]
DoWait         == [op |-> "wait", ti |-> ANY, call |-> NoCall]
DoEnter        == [op |-> "enter", ti |-> ANY, call |-> NoCall]
DoDrop(i)      == [op |-> "drop", ti |-> i, call |-> NoCall]

MainAt(t, op) == t = MainThread /\ pc[t] = "main" /\ env.main # <<>> /\ Head(env.main).op = op

\* user code on the main thread calls schedule(f, ti)
MainSchedule(t) ==
    /\ MainAt(t, "schedule")
    /\ ScheduleCall(t, "main", Head(env.main).ti)
    /\ env' = [env EXCEPT !.main = Tail(@)]

\* user code on the main thread creates a coroutine and calls schedule(coro):
\* the parent is current_job(), null on this thread, so nothing is added
MainScheduleCoro(t) ==
    /\ MainAt(t, "coro")
    /\ FreeNodes # {}
    /\ LET c == NthFree(FreeNodes, 1)
           r == Head(env.main).call
       IN  /\ kind' = [kind EXCEPT ![c] = "coro"]
           /\ m_next' = [m_next EXCEPT ![c] = NULL]
           /\ m_children' = [m_children EXCEPT ![c] = 0]
           /\ m_parent' = [m_parent EXCEPT ![c] = NULL]
           /\ m_thread_index' = [m_thread_index EXCEPT ![c] = r.ti]
           /\ coro' = [coro EXCEPT ![c] = [Coro0 EXCEPT !.state = "suspended", !.body = r.body]]
           /\ hist' = [hist EXCEPT !.await[c] = {}, !.made = Append(@, c),
                                   !.held = @ \cup {c}]
           /\ loc' = [loc EXCEPT ![t].kids = <<[n |-> c, add |-> 1]>>, ![t].par = m_current_job[t],
                                 ![t].sret = "main"]
    /\ env' = [env EXCEPT !.main = Tail(@)]
    /\ pc' = [pc EXCEPT ![t] = "cs_route"]
    /\ UNCHANGED <<m_continuation, m_function, m_head, poolVars, m_current_job>>

\* the i-th Coro object the constructing thread created goes out of scope:
\* ~Coro() {} leaves the promise alone
MainDrop(t) ==
    /\ MainAt(t, "drop")
    /\ Head(env.main).ti <= Len(hist.made)
    /\ hist' = [hist EXCEPT !.held = @ \ {hist.made[Head(env.main).ti]}]
    /\ env' = [env EXCEPT !.main = Tail(@)]
    /\ UNCHANGED <<coro, nodeVars, m_head, poolVars, threadVars>>

\* JobSystem::terminate: m_terminate = true
MainTerminate(t) ==
    /\ MainAt(t, "terminate")
    /\ m_terminate' = TRUE
    /\ env' = [env EXCEPT !.main = Tail(@)]
    /\ UNCHANGED <<coro, nodeVars, m_head, m_thread_count, thread_counter, m_start_idx, nqueues, m_threads, heap,
                   threadVars, hist>>

\* JobSystem::wait_for_termination is called
MainWait(t) ==
    /\ MainAt(t, "wait")
    /\ pc' = [pc EXCEPT ![t] = "wait"]
    /\ env' = [env EXCEPT !.main = Tail(@)]
    /\ UNCHANGED <<coro, nodeVars, m_head, poolVars, m_current_job, loc, hist>>

\* while (m_thread_count > 0) sleep; then wait_for_termination returns
WaitReturn(t) ==
    /\ pc[t] = "wait"
    /\ m_thread_count = 0
    /\ pc' = [pc EXCEPT ![t] = "main"]
    /\ hist' = [hist EXCEPT !.returned = TRUE]
    /\ UNCHANGED <<coro, nodeVars, m_head, poolVars, m_current_job, loc, env>>

\* with start_idx = 1 the constructing thread calls thread_task(0)
MainEnter(t) ==
    /\ MainAt(t, "enter")
    /\ pc' = [pc EXCEPT ![t] = "tt_enter"]
    /\ env' = [env EXCEPT !.main = Tail(@)]
    /\ UNCHANGED <<coro, nodeVars, m_head, poolVars, m_current_job, loc, hist>>

\* thread_task(0) returns to the constructing thread's program
MainLeave(t) ==
    /\ t = MainThread
    /\ pc[t] = "tt_done"
    /\ pc' = [pc EXCEPT ![t] = "main"]
    /\ UNCHANGED <<coro, nodeVars, m_head, poolVars, m_current_job, loc, env, hist>>

\* ------------------------------------- Coro_promise_base::operator new/delete
\* blocks: what the memory resources have allocated and not got back;
\* stamps: the pointers written into memory, by address;
\* last: the deallocate call of the last operator delete and the block of
\* the promise it was called for
\* x & y on std::size_t
RECURSIVE BitAnd(_, _)
BitAnd(x, y) ==
    IF x = 0 \/ y = 0 THEN 0
    ELSE (x % 2) * (y % 2) + 2 * BitAnd(x \div 2, y \div 2)

\* an offset that rounds down
DeleteOffset_Floor(sz) == BitAnd(sz, (2 ^ SizeBits - 1) - (PtrAlign - 1))

\* operator new: (sz + alignof(memory_resource*) - 1) & ~(alignof(memory_resource*) - 1)
NewOffset(sz) ==
    BitAnd((sz + PtrAlign - 1) % (2 ^ SizeBits), (2 ^ SizeBits - 1) - (PtrAlign - 1))

\* operator delete: the same expression, computed again from its sz
DeleteOffset(sz) ==
    BitAnd((sz + PtrAlign - 1) % (2 ^ SizeBits), (2 ^ SizeBits - 1) - (PtrAlign - 1))

\* operator new(sz, allocator_arg, mr): ptr = mr->allocate(offset + sizeof(mr));
\* *(memory_resource**)(ptr + offset) = mr; the promise of sz bytes is at ptr
PromiseNew(sz, mr) ==
    \E ptr \in {a \in 0 .. MaxAddr : a % PtrAlign = 0} :
        LET b == [ptr |-> ptr, sz |-> sz, mr |-> mr, bytes |-> NewOffset(sz) + PtrSize]
            at == ptr + NewOffset(sz)
        IN  /\ b.ptr + b.bytes <= MaxAddr
            /\ \A o \in heap.blocks :
                  (o.ptr .. (o.ptr + o.bytes - 1)) \cap (b.ptr .. (b.ptr + b.bytes - 1)) = {}
            /\ heap' = [heap EXCEPT
                          !.blocks = @ \cup {b},
                          !.stamps = {s \in @ : s.at \notin (at - PtrSize + 1) .. (at + PtrSize - 1)}
                                        \cup {[at |-> at, val |-> mr]}]
            /\ UNCHANGED <<coro, nodeVars, m_head, m_thread_count, m_terminate, thread_counter,
                           m_start_idx, nqueues, m_threads, threadVars, env, hist>>

\* the coroutine writes a byte of its promise or frame, the sz bytes at ptr
PromiseWrite(b) ==
    /\ b \in heap.blocks
    /\ \E a \in b.ptr .. (b.ptr + b.sz - 1) :
          heap' = [heap EXCEPT !.stamps = {s \in @ : a \notin s.at .. (s.at + PtrSize - 1)}]
    /\ UNCHANGED <<coro, nodeVars, m_head, m_thread_count, m_terminate, thread_counter,
                   m_start_idx, nqueues, m_threads, threadVars, env, hist>>

\* operator delete(ptr, sz): allocator = *(memory_resource**)(ptr + offset);
\* allocator->deallocate(ptr, offset + sizeof(memory_resource*)).
\* Memory that holds no stamped pointer reads as any value, and so does the
\* memory of a block that went back to its resource.
PromiseDelete(b) ==
    /\ b \in heap.blocks
    /\ LET at == b.ptr + DeleteOffset(b.sz)
           read == IF \E s \in heap.stamps : s.at = at
                   THEN {s.val : s \in {x \in heap.stamps : x.at = at}}
                   ELSE 0 .. MaxMr
       IN  \E allocator \in read :
             heap' = [heap EXCEPT
                        !.blocks = @ \ {b},
                        !.stamps = {s \in @ : s.at \notin b.ptr .. (b.ptr + b.bytes - 1)},
                        !.last = <<[mr |-> allocator, ptr |-> b.ptr,
                                    bytes |-> DeleteOffset(b.sz) + PtrSize, of |-> b]>>]
    /\ UNCHANGED <<coro, nodeVars, m_head, m_thread_count, m_terminate, thread_counter,
                   m_start_idx, nqueues, m_threads, threadVars, env, hist>>

\* ------------------------------------------------ JobSystem::JobSystem
\* The state the constructor leaves for threadCount tc > 0 and start_idx si:
\* tc local queues, threads si .. tc-1 spawned into thread_task.
InitPool(tc, si, e) ==
    /\ kind = [n \in Nodes |-> "free"]
    /\ m_next = [n \in Nodes |-> NULL]
    /\ m_children = [n \in Nodes |-> 0]
    /\ m_parent = [n \in Nodes |-> NULL]
    /\ m_thread_index = [n \in Nodes |-> ANY]
    /\ m_continuation = [n \in Nodes |-> NULL]
    /\ m_function = [n \in Nodes |-> 0]
    /\ coro = [n \in Nodes |-> Coro0]
    /\ m_head = [q \in Queues |-> NULL]
    /\ m_thread_count = tc
    /\ m_terminate = FALSE
    /\ thread_counter = tc
    /\ m_start_idx = si
    /\ nqueues = tc
    /\ m_threads = [k \in 1 .. (tc - si) |-> [idx |-> si + k - 1, detached |-> si = 0]]
    /\ heap = [blocks |-> {}, stamps |-> {}, last |-> <<>>]
    /\ pc = [t \in Threads |-> IF t = MainThread THEN "main"
                               ELSE IF t >= si /\ t < tc THEN "tt_enter" ELSE "none"]
    /\ m_current_job = [t \in Threads |-> NULL]
    /\ loc = [t \in Threads |-> Frame0]
    /\ env = e
    /\ hist = Hist0

\* for (i = 0; i < m_thread_count; i++) m_local_queues.push_back(...)
CtorQueues(t) ==
    /\ pc[t] = "ctor_queues"
    /\ IF nqueues < m_thread_count
       THEN /\ nqueues' = nqueues + 1
            /\ UNCHANGED <<pc, loc>>
       ELSE /\ pc' = [pc EXCEPT ![t] = "ctor_spawn"]
            /\ loc' = [loc EXCEPT ![t].q = m_start_idx]
            /\ UNCHANGED nqueues
    /\ UNCHANGED <<coro, nodeVars, m_head, m_thread_count, m_terminate, thread_counter,
                   m_start_idx, m_threads, heap, m_current_job, env, hist>>

\* for (i = start_idx; i < m_thread_count; i++) {
\*     m_threads.push_back(std::thread(&JobSystem::thread_task, this, i));
\*     m_threads[i].detach(); }
\* An index i at or past m_threads.size() is undefined behaviour: the
\* constructor stops there (the process dies or detach() throws) or goes on
\* with the new thread left joinable.
CtorSpawn(t) ==
    /\ pc[t] = "ctor_spawn"
    /\ LET i == loc[t].q
           pushed == Append(m_threads, [idx |-> i, detached |-> FALSE])
       IN  IF i < m_thread_count
           THEN IF i < Len(pushed)
                THEN /\ m_threads' = [pushed EXCEPT ![i + 1].detached = TRUE]
                     /\ pc' = [pc EXCEPT ![i] = "tt_enter"]
                     /\ loc' = [loc EXCEPT ![t].q = i + 1]
                     /\ UNCHANGED hist
                ELSE /\ m_threads' = pushed
                     /\ hist' = [hist EXCEPT !.oob = TRUE]
                     /\ \/ /\ pc' = [pc EXCEPT ![i] = "tt_enter", ![t] = "crashed"]
                           /\ UNCHANGED loc
                        \/ /\ pc' = [pc EXCEPT ![i] = "tt_enter"]
                           /\ loc' = [loc EXCEPT ![t].q = i + 1]
           ELSE /\ pc' = [pc EXCEPT ![t] = "main"]
                /\ loc' = [loc EXCEPT ![t].q = 0]
                /\ UNCHANGED <<m_threads, hist>>
    /\ UNCHANGED <<coro, nodeVars, m_head, m_thread_count, m_terminate, thread_counter,
                   m_start_idx, nqueues, heap, m_current_job, env>>

\* ---------------------------------------------------------- specifications
\* a coroutine is resumed, returns, notifies and is destroyed; schedule(coro)
CoroRun(t) ==
    \/ CoroResume(t) \/ CoroReturn(t) \/ Notify(t) \/ CoroDestroy(t)
    \/ CoroSchedRoute(t) \/ CoroSchedNext(t)

\* a coroutine awaits coroutines and is scheduled by the last of them
CoroAwaits(t) == CoroAwait(t) \/ CoroSchedAdd(t) \/ NotifySchedule(t)

Coros(t) == CoroRun(t) \/ CoroAwaits(t)

\* a worker leaves thread_task
Exit(t) == TtExit(t) \/ ClearCentral(t) \/ ClearRecycle(t) \/ ClearLocal(t)

Queue(t) == PushLoad(t) \/ PushCas(t) \/ PopLoad(t) \/ PopNext(t) \/ PopCas(t) \/ PopReread(t)

Dispatch(t) == TtEnter(t) \/ TtBarrier(t) \/ TtLoop(t) \/ TtLocal(t) \/ TtCentral(t)

\* a callable is run and finishes; schedule(f)
JobRun(t) ==
    \/ JobResume(t) \/ JobReturn(t) \/ JobDec(t) \/ FinRecycle(t) \/ FinReturn(t)
    \/ ScheduleGot(t) \/ ScheduleRoute(t)

\* a callable schedules a callable and is notified by it
JobNest(t) == JobSchedule(t) \/ ScheduleInc(t) \/ FinParent(t)

Jobs(t) == JobRun(t) \/ JobNest(t)

\* a callable installs a continuation, on_finished schedules it
JobCont(t) == JobContinuation(t) \/ FinContInc(t) \/ FinContSchedule(t) \/ FinContDone(t)

\* Jobs on a pool of MaxWorkers workers; every callable goes to the central queue
\* The user program of a run:
\*   main      the calls the constructing thread makes, in order
\*   spawners  callables whose body calls schedule(f, spawnTi) once
Program(main, spawners) ==
    [main |-> main, spawners |-> spawners, spawnTi |-> ANY, cont |-> FALSE, contDepth |-> 1,
     fail |-> {}, backoff |-> FALSE]

\* ... and the callables scheduled from a body install a continuation
ProgramCont(main, spawners) == [Program(main, spawners) EXCEPT !.cont = TRUE]

\* two callables scheduled by the constructing thread into the central
\* queue; the first one schedules a third from its body
Init == InitPool(2, 0, Program(<<DoSchedule(ANY), DoSchedule(ANY)>>, {1}))

Next == \E t \in Threads : Queue(t) \/ Dispatch(t) \/ Jobs(t) \/ MainSchedule(t)

Spec == Init /\ [][Next]_vars

\* three callables scheduled by the constructing thread, the third one
\* schedules a fourth from its body
SpecNested ==
    /\ InitPool(2, 0, Program(<<DoSchedule(ANY), DoSchedule(ANY), DoSchedule(ANY)>>, {3}))
    /\ [][Next]_vars

\* the steps of thread t when callables are scheduled and run
StepJobs(t) == Queue(t) \/ Dispatch(t) \/ Jobs(t) \/ MainSchedule(t)

\* terminate() is never called and every thread that can take a step
\* eventually takes one
SpecProgress == Init /\ [][Next]_vars /\ \A t \in Threads : WF_vars(StepJobs(t))

\* A coroutine that awaits one child coroutine, next to two callables, all
\* scheduled by the constructing thread into the central queue
Leaf(v) == Call(<<OpReturn(v)>>, ANY)

AwaitOne == Call(<<OpAwait(<<<<Leaf(1)>>>>), OpReturn(2)>>, ANY)

NextAwait ==
    \E t \in Threads :
        \/ Queue(t) \/ Dispatch(t) \/ JobRun(t) \/ Coros(t) \/ RunFreed(t)
        \/ MainSchedule(t) \/ MainScheduleCoro(t)

SpecAwait ==
    /\ InitPool(2, 0, Program(<<DoCoro(AwaitOne), DoSchedule(ANY), DoSchedule(ANY)>>, {}))
    /\ [][NextAwait]_vars

NextFifo ==
    \E t \in Threads :
        Queue(t) \/ Dispatch(t) \/ CoroRun(t) \/ CoroMigrate(t) \/ MainScheduleCoro(t)

\* Three coroutines for the inbox of worker 0: two pushed there by the
\* constructing thread, one by worker 1 when it migrates
SpecFifo ==
    /\ InitPool(2, 0, Program(<<DoCoro(Call(<<OpReturn(1)>>, 0)),
       DoCoro(Call(<<OpMigrate(0), OpReturn(2)>>, 1)),
       DoCoro(Call(<<OpReturn(3)>>, 0))>>, {}))
    /\ [][NextFifo]_vars

NextShutdown ==
    \E t \in Threads :
        \/ Queue(t) \/ Dispatch(t) \/ Exit(t) \/ JobRun(t)
        \/ MainSchedule(t) \/ MainTerminate(t) \/ MainWait(t) \/ WaitReturn(t)

\* A callable for worker 1 scheduled before and after terminate(), then
\* wait_for_termination()
SpecShutdown ==
    /\ InitPool(2, 0, Program(<<DoSchedule(1), DoTerminate, DoSchedule(1), DoWait>>, {}))
    /\ [][NextShutdown]_vars

\* Two coroutines for any worker that migrate to worker 1 twice
SpecMigrate ==
    /\ InitPool(2, 0, Program(<<DoCoro(Call(<<OpMigrate(1), OpMigrate(1), OpReturn(1)>>, ANY)),
                                DoCoro(Call(<<OpMigrate(1), OpMigrate(1), OpReturn(2)>>, ANY))>>, {}))
    /\ [][NextFifo]_vars

NextAffinity ==
    \E t \in Threads :
        \/ Queue(t) \/ Dispatch(t) \/ Exit(t) \/ CoroRun(t) \/ CoroMigrate(t)
        \/ MainScheduleCoro(t) \/ MainTerminate(t)

\* A coroutine that starts on worker 0 and migrates to worker 2 and one
\* for any worker, on a pool of three workers that is terminated meanwhile
SpecAffinity ==
    /\ InitPool(3, 0, Program(<<DoCoro(Call(<<OpMigrate(2), OpReturn(1)>>, 0)),
       DoCoro(Leaf(2)), DoTerminate>>, {}))
    /\ [][NextAffinity]_vars

\* the steps of thread t
StepLive(t) ==
    \/ Queue(t) \/ Dispatch(t) \/ Exit(t) \/ CoroRun(t) \/ RunFreed(t)
    \/ MainScheduleCoro(t) \/ MainTerminate(t) \/ MainWait(t) \/ WaitReturn(t)
    \/ MainEnter(t) \/ MainLeave(t)

NextLive == \E t \in Threads : StepLive(t)

\* Shutdown: three coroutines for the central queue of a pool of two
\* workers, then terminate() and wait_for_termination(); or a pool of one
\* worker with start_idx = 1, where the constructing thread calls
\* terminate(), enters thread_task(0) and then waits
\* every thread that can take a step eventually takes one
SpecLive ==
    /\ \/ InitPool(2, 0, Program(<<DoCoro(Leaf(1)), DoCoro(Leaf(2)), DoCoro(Leaf(3)),
          DoTerminate, DoWait>>, {}))
       \/ InitPool(1, 1, Program(<<DoCoro(Leaf(1)), DoTerminate, DoEnter, DoWait>>, {}))
    /\ [][NextLive]_vars
    /\ \A t \in Threads : WF_vars(StepLive(t))

NextCont == \E t \in Threads : Queue(t) \/ Dispatch(t) \/ Jobs(t) \/ JobCont(t) \/ MainSchedule(t)

\* Continuations: P is scheduled by the constructing thread, its body
\* schedules A, and A's body installs the continuation B
SpecCont ==
    /\ InitPool(2, 0, ProgramCont(<<DoSchedule(ANY)>>, {1}))
    /\ [][NextCont]_vars

\* ... next to a second callable scheduled by the constructing thread
SpecContBusy ==
    /\ InitPool(2, 0, ProgramCont(<<DoSchedule(ANY), DoSchedule(ANY)>>, {1}))
    /\ [][NextCont]_vars

\* A callable scheduled by the constructing thread installs a continuation
NextContTop ==
    \E t \in Threads :
        \/ Queue(t) \/ Dispatch(t) \/ JobRun(t) \/ JobContinuation(t) \/ FinContSchedule(t)
        \/ FinContDone(t) \/ FinParent(t) \/ MainSchedule(t)

SpecContTop ==
    /\ InitPool(2, 0, [ProgramCont(<<DoSchedule(ANY)>>, {}) EXCEPT !.contDepth = 0])
    /\ [][NextContTop]_vars

\* Start of a pool of three workers, or of two workers with start_idx = 1
\* where the constructing thread enters thread_task(0) after it scheduled
\* two callables
NextStart ==
    \E t \in Threads :
        Queue(t) \/ Dispatch(t) \/ JobRun(t) \/ MainSchedule(t) \/ MainEnter(t)

SpecStart ==
    /\ \/ InitPool(3, 0, Program(<<DoSchedule(ANY), DoSchedule(ANY)>>, {}))
       \/ InitPool(2, 1, Program(<<DoSchedule(ANY), DoSchedule(ANY), DoEnter>>, {}))
    /\ [][NextStart]_vars

\* Two workers that count their empty iterations while the constructing
\* thread schedules two callables for the inbox of worker 1, or enters
\* thread_task(0) itself
SpecIdle ==
    /\ \/ InitPool(2, 0, [Program(<<DoSchedule(1), DoSchedule(1)>>, {}) EXCEPT !.backoff = TRUE])
       \/ InitPool(2, 1, [Program(<<DoEnter>>, {}) EXCEPT !.backoff = TRUE])
    /\ [][NextStart]_vars

\* Construction of a pool of 1 to MaxWorkers workers with start_idx 0 or 1,
\* after which the constructing thread schedules two callables and, with
\* start_idx = 1, enters thread_task(0)
NextCtor == NextStart \/ \E t \in Threads : CtorQueues(t) \/ CtorSpawn(t)

SpecCtor ==
    /\ \E tc \in 1 .. MaxWorkers, si \in {0, 1} :
          /\ m_thread_count = tc
          /\ thread_counter = tc
          /\ m_start_idx = si
          /\ env = Program(<<DoSchedule(ANY), DoSchedule(ANY)>>
                               \o (IF si = 1 THEN <<DoEnter>> ELSE <<>>), {})
    /\ nqueues = 0
    /\ m_threads = <<>>
    /\ heap = [blocks |-> {}, stamps |-> {}, last |-> <<>>]
    /\ m_terminate = FALSE
    /\ kind = [n \in Nodes |-> "free"]
    /\ m_next = [n \in Nodes |-> NULL]
    /\ m_children = [n \in Nodes |-> 0]
    /\ m_parent = [n \in Nodes |-> NULL]
    /\ m_thread_index = [n \in Nodes |-> ANY]
    /\ m_continuation = [n \in Nodes |-> NULL]
    /\ m_function = [n \in Nodes |-> 0]
    /\ coro = [n \in Nodes |-> Coro0]
    /\ m_head = [q \in Queues |-> NULL]
    /\ pc = [t \in Threads |-> IF t = MainThread THEN "ctor_queues" ELSE "none"]
    /\ m_current_job = [t \in Threads |-> NULL]
    /\ loc = [t \in Threads |-> Frame0]
    /\ hist = Hist0
    /\ [][NextCtor]_vars

\* Promises of every size 1 .. MaxSize are allocated from MaxMr memory
\* resources, written to and deleted
SpecAlloc ==
    /\ InitPool(2, 0, Program(<<>>, {}))
    /\ [][\/ \E sz \in 1 .. MaxSize, mr \in 1 .. MaxMr : PromiseNew(sz, mr)
          \/ \E b \in heap.blocks : PromiseWrite(b) \/ PromiseDelete(b)]_vars

\* Two coroutines whose Coro objects the constructing thread keeps until it
\* drops the second one

NextLife ==
    \E t \in Threads :
        Queue(t) \/ Dispatch(t) \/ CoroRun(t) \/ MainScheduleCoro(t) \/ MainDrop(t)

SpecLife ==
    /\ InitPool(2, 0, Program(<<DoCoro(Leaf(1)), DoCoro(Leaf(2)), DoDrop(2)>>, {}))
    /\ [][NextLife]_vars

\* A coroutine that awaits a vector of two coroutines and adds up their
\* results,
Summer == Call(<<OpAwait(<<<<Leaf(1), Leaf(2)>>>>), OpGet, OpReturn(3)>>, ANY)

\* next to a coroutine that the constructing thread schedules as well
NextGetBusy ==
    \E t \in Threads :
        \/ Queue(t) \/ Dispatch(t) \/ Coros(t) \/ CoroGet(t) \/ RunFreed(t)
        \/ MainScheduleCoro(t)

SpecGetBusy ==
    /\ InitPool(2, 0, Program(<<DoCoro(Summer), DoCoro(Leaf(3))>>, {}))
    /\ [][NextGetBusy]_vars

\* The same with the two coroutines in a tuple of two vectors
TupleSummer == Call(<<OpAwait(<<<<Leaf(1)>>, <<Leaf(2)>>>>), OpGet, OpReturn(3)>>, ANY)

SpecTuple ==
    /\ InitPool(2, 0, Program(<<DoCoro(TupleSummer), DoCoro(Leaf(3))>>, {}))
    /\ [][NextGetBusy]_vars

\* A coroutine that yields twice and returns, awaited three times by a
\* coroutine that reads get() after each co_await, next to a coroutine
\* that the constructing thread schedules as well
YieldValues == <<1, 2, 3>>

Gen == Call(<<OpYield(YieldValues[1]), OpYield(YieldValues[2]), OpReturn(YieldValues[3])>>, ANY)

Watcher == Call(<<OpAwait(<<<<Gen>>>>), OpGet, OpAgain, OpGet, OpAgain, OpGet, OpReturn(4)>>, ANY)

NextYield ==
    \E t \in Threads :
        \/ Queue(t) \/ Dispatch(t) \/ Coros(t) \/ CoroYield(t) \/ CoroGet(t) \/ CoroAgain(t)
        \/ RunFreed(t) \/ MainScheduleCoro(t)

SpecYield ==
    /\ InitPool(2, 0, Program(<<DoCoro(Watcher), DoCoro(Leaf(4))>>, {}))
    /\ [][NextYield]_vars

\* A coroutine and a callable whose bodies throw, next to a coroutine and
\* a callable whose bodies return
NextFail ==
    \E t \in Threads :
        \/ Queue(t) \/ Dispatch(t) \/ JobRun(t) \/ CoroRun(t) \/ JobThrow(t) \/ CoroThrow(t)
        \/ RunFreed(t) \/ MainSchedule(t) \/ MainScheduleCoro(t)

SpecFail ==
    /\ InitPool(2, 0, [Program(<<DoCoro(Leaf(1)), DoSchedule(ANY), DoSchedule(ANY),
                                 DoCoro(Call(<<OpThrow>>, ANY))>>, {}) EXCEPT !.fail = {2}])
    /\ [][NextFail]_vars

\* ------------------------------------------------------------ properties
\* the callables scheduled so far
Used == 1 .. hist.nsched

\* node n is linked into queue q: reachable from the queue's head
InQ(n, q) == n \in Linked(m_head[q], MaxNodes + 1)

\* a worker is inside resume() of node n
Running(n) ==
    \E t \in Threads : m_current_job[t] = n /\ (loc[t].f # 0 \/ pc[t] \in {"run", "coro_step"})

\* C1: on_finished of a scheduled Job has started only if the Job's body
\* has returned and on_finished has started for every Job scheduled from
\* inside that body (and so, by the same statement for them, for all
\* descendants).
C1_StructuredCompletion ==
    \A u \in Used : hist.fin[u] >= 1 =>
        /\ hist.ret[u] >= 1
        /\ \A v \in Used : hist.parent[v] = u => hist.fin[v] >= 1

\* C3: on_finished fires at most once for every scheduling of a Job (it is
\* started only by the decrement that takes the counter from 1 to 0, and
\* that happens once).
C3_CompletionOnce == \A u \in Used : hist.fin[u] <= 1

\* C4: every node is linked into at most one queue, and a node a worker is
\* running is linked into no queue.
C4_OneQueue ==
    \A n \in Nodes :
        /\ Cardinality({q \in Queues : InQ(n, q)}) <= 1
        /\ Running(n) => \A q \in Queues : ~InQ(n, q)

\* C11: for a Job A whose body installed the continuation B: B's body has
\* started only if A's body has returned, and on_finished of A's parent P
\* has started only if on_finished of B has started.
C11_ContinuationKeepsParent ==
    \A a \in Used :
        LET b == hist.cont[a]
            p == hist.parent[a]
        IN  b # 0 =>
              /\ hist.ran[b] >= 1 => hist.ret[a] >= 1
              /\ (p # 0 /\ hist.fin[p] >= 1) => hist.fin[b] >= 1

\* C12: for a Job with a continuation: on_finished schedules the
\* continuation only after the decrement that took the counter to 0, it
\* notifies the parent only after that, and it recycles the Job only after
\* both.
C12_ContinuationOrder ==
    \A a \in Used :
        hist.cont[a] # 0 =>
          /\ hist.cpush[a] >= 1 => hist.fin[a] >= 1
          /\ hist.dec[a] >= 1 => hist.cpush[a] >= 1
          /\ hist.rec[a] >= 1 =>
                (hist.cpush[a] >= 1 /\ (hist.parent[a] # 0 => hist.dec[a] >= 1))

\* a Job with a continuation and a parent has gone through its whole
\* on_finished: continuation scheduled, parent notified, Job recycled
C12_Witness ==
    \E a \in Used :
        /\ hist.cont[a] # 0 /\ hist.parent[a] # 0
        /\ hist.cpush[a] >= 1 /\ hist.dec[a] >= 1 /\ hist.rec[a] >= 1

\* C23: the Job that schedule(f, thread_index) enqueues has no
\* continuation, the caller's current job as parent, the thread index of
\* the call, the callable of the call and no children, whether its slot is
\* new or comes from the recycler.
C23_ResetOnRecycle ==
    \A t \in Threads :
        (pc[t] = "push_load" /\ loc[t].ret \in {"main", "sch_body"} /\ loc[t].q # Recycle)
            => LET j == loc[t].job
                   u == hist.call[t]
               IN  /\ m_continuation[j] = NULL
                   /\ m_parent[j] = m_current_job[t]
                   /\ m_thread_index[j] = hist.ti[u]
                   /\ m_function[j] = u
                   /\ m_children[j] = 0
                   /\ m_next[j] = NULL

\* C24: a worker that is past the wait loop of thread_task, and so any
\* worker that pops a queue or runs a node, finds that every worker of the
\* pool has entered thread_task and the entry counter is 0: the spawned
\* workers start_idx .. worker_count - 1 and, with start_idx = 1, the
\* caller as worker 0.
C24_StartBarrier ==
    LET StartSet == {w \in Workers : w >= m_start_idx /\ w < nqueues}
                        \cup (IF m_start_idx = 1 THEN {MainThread} ELSE {})
    IN  \A t \in Threads :
            (t \in hist.entered /\ pc[t] # "tt_barrier")
                => /\ thread_counter = 0
                   /\ StartSet \subseteq hist.entered

\* with start_idx = 1 the spawned worker 1 runs a node after the caller
\* entered as worker 0
C24_Witness ==
    /\ m_start_idx = 1
    /\ MainThread \in hist.entered
    /\ pc[1] = "job_body"

\* C25: a worker with index > 0 sleeps only after NOOP empty dispatch
\* iterations in a row, counted from its last sleep or from the last
\* iteration that ran a node; worker 0 never sleeps.
C25_IdleBackoff ==
    \A t \in Threads :
        /\ \A i \in 1 .. Len(hist.slept[t]) : hist.slept[t][i] >= NOOP
        /\ (loc[t].tidx = 0) => hist.slept[t] = <<>>

\* C26: at most one worker ever clears the queues, the one whose
\* fetch_sub took m_thread_count from 1 to 0; while it clears, every other
\* worker of the pool has left its dispatch loop and finished thread_task,
\* so none of them pushes, pops or runs a node (the workers are the threads
\* in thread_task; the constructing thread of a pool with start_idx = 0 is
\* not one of them).
C26_QuiescentClear ==
    /\ Len(hist.clearers) <= 1
    /\ \A t \in Threads :
          pc[t] \in {"clear_central", "clear_recycle", "clear_local"}
              => /\ hist.clearers = <<t>>
                 /\ m_thread_count = 0
                 /\ \A w \in Workers \ {t} :
                       (w >= m_start_idx /\ w < nqueues) => pc[w] = "tt_done"
                 /\ (m_start_idx = 1 /\ t # MainThread) => MainThread \in hist.left

\* the last of three workers clears a central queue that holds a node
C26_Witness ==
    \E t \in Workers :
        /\ pc[t] = "clear_central"
        /\ m_head[Central] # NULL
        /\ nqueues = 3

\* C27: every execution of Job::resume finds the Job's counter at 0, so
\* the write m_children = 1 discards no child that was counted on it.
C27_ResumeOverwritesZero ==
    [][\A t \in Threads : JobResume(t) => m_children[m_current_job[t]] = 0]_vars

\* C28: the constructor creates worker_count inboxes and spawns the
\* threads with worker indices start_idx .. worker_count - 1, one vector
\* element each; it detaches every one of them and never uses an index at
\* or past the current length of the thread vector.
C28_WorkerSpawning ==
    /\ ~hist.oob
    /\ pc[MainThread] \notin {"ctor_queues", "ctor_spawn"}
          => /\ nqueues = m_thread_count
             /\ Len(m_threads) = m_thread_count - m_start_idx
             /\ \A k \in 1 .. Len(m_threads) :
                   /\ m_threads[k].idx = m_start_idx + k - 1
                   /\ m_threads[k].detached
                   /\ pc[m_threads[k].idx] # "none"

\* C29: operator delete computes the offset operator new computed for the
\* promise, reads at that offset the memory resource that new stamped
\* there, and gives that resource back the pointer and the byte count
\* (offset + size of a pointer) that were allocated from it.
C29_StampRoundTrip ==
    \A d \in {heap.last[i] : i \in 1 .. Len(heap.last)} :
        /\ d.bytes - PtrSize = NewOffset(d.of.sz)
        /\ d.mr = d.of.mr
        /\ d.ptr = d.of.ptr
        /\ d.bytes = d.of.bytes

\* a promise whose size is no multiple of the pointer alignment was written
\* to and deleted while a promise of the other memory resource is allocated
C29_Witness ==
    /\ heap.last # <<>>
    /\ heap.last[1].of.sz % PtrAlign # 0
    /\ \E b \in heap.blocks : b.mr # heap.last[1].of.mr

\* C30: every pop returns a node that was pushed to its queue and not
\* yet returned by a pop of it, and every node pushed to a queue and not
\* yet returned is linked from the queue's head.
C30_QueueConservation ==
    /\ ~hist.phantom
    /\ \A q \in Queues : \A i \in 1 .. Len(hist.inq[q]) : InQ(hist.inq[q][i], q)

\* C31: the children counter of every Job and of every coroutine promise
\* is at least 0 in every reachable state: no decrement is applied to a
\* counter that no increment has paid for.
C31_CounterNonNegative == \A n \in Nodes : m_children[n] >= 0

\* C32: no thread uses a Job that lies in the recycler. A Job lies there
\* from the push of recycle(this) until schedule(callable) pops it for
\* reuse; a thread uses it while it is inside its resume(), while its
\* on_finished has not yet pushed it, and while it is about to notify it
\* as the parent of a finished child.
C32_NoUseAfterRecycle ==
    \A n \in Nodes :
        (\E i \in 1 .. Len(hist.inq[Recycle]) : hist.inq[Recycle][i] = n) =>
            \A t \in Threads :
                /\ ~(m_current_job[t] = n /\ IsJob(n) /\ (loc[t].f # 0 \/ pc[t] = "run"))
                /\ \A i \in 1 .. Len(loc[t].fin) :
                       loc[t].fin[i] = n => (i = Len(loc[t].fin) /\ pc[t] = "fin_ret")
                /\ ~(pc[t] \in {"fin_parent", "fin_cinc"} /\ m_parent[FinJob(t)] = n)

\* C22: when on_finished of a Job schedules its continuation, the parent of
\* the continuation is the parent of the Job, null included.
C22_ContinuationParent ==
    \A t \in Threads :
        (pc[t] = "push_load" /\ loc[t].ret = "fin_cdone")
            => m_parent[loc[t].job] = m_parent[FinJob(t)]

C20_SingleReschedule ==
    \A w \in Threads :
        pc[w] = "notify_sched" =>
            LET p == m_parent[m_current_job[w]]
            IN  /\ kind[p] = "coro" /\ coro[p].state = "suspended"
                /\ ~Running(p)
                /\ \A q \in Queues : ~InQ(p, q)
                /\ hist.resched[p] = 0

\* the coroutines that thread t, inside await_suspend, still has to push
Unpushed(t) ==
    IF pc[t] \in {"cs_add", "cs_route", "push_load", "push_cas"} /\ loc[t].par # NULL
    THEN Len(loc[t].kids)
    ELSE 0

\* C19: while a coroutine that awaits a tuple of vectors still has children
\* to push, its counter has been raised by all N at once (from the first
\* add on it is at least the number of children not yet pushed, the later
\* adds are 0) and no child reschedules it.
C19_PrecomputedN ==
    \A t \in Threads :
        Unpushed(t) > 0 =>
            LET p == loc[t].par
            IN  /\ (pc[t] = "cs_add" /\ Head(loc[t].kids).add # 0) \/ m_children[p] >= Unpushed(t)
                /\ pc[t] = "cs_add" => Head(loc[t].kids).add \in {0, Len(coro[p].kids)}
                /\ \A w \in Threads :
                      ~(pc[w] = "notify_sched" /\ m_parent[m_current_job[w]] = p)

\* an early child has finished while a later one is not pushed yet
C19_Witness ==
    \E t \in Threads :
        /\ Unpushed(t) > 0 /\ pc[t] # "cs_add"
        /\ m_children[loc[t].par] = 1
        /\ Cardinality(hist.await[loc[t].par]) = 1

\* C18: once an exception has left the body of a coroutine or of a
\* callable, the process is terminated: no thread takes another step.
C18_FailStop == hist.threw => pc = Crashed

C18_Witness == hist.threw /\ pc = Crashed

\* C17: when the last worker has left thread_task, every node that clear()
\* found linked in a queue, Job or coroutine promise, has been deallocated.
C17_NoLeak ==
    (m_thread_count = 0 /\ \A t \in Threads : pc[t] \notin {"tt_exit", "clear_central", "clear_recycle", "clear_local"})
        => \A n \in hist.cleared : kind[n] = "free"

\* C16: without terminate() and with every thread taking its steps, the
\* on_finished of every callable that was scheduled eventually fires.
C16_Progress == \A u \in Closures : (hist.slot[u] # NULL) ~> (hist.fin[u] >= 1)

\* C15: a coroutine that awaits a coroutine yielding v1, v2 and returning
\* v3 reads v1, v2, v3 in this order with get(), one value after each
\* co_await, and never an empty or an earlier value.
C15_YieldSequence ==
    \A p \in Nodes : hist.got[p] = SubSeq(YieldValues, 1, Len(hist.got[p]))

\* C14: when a coroutine that awaited coroutines calls get() on each of
\* them, it reads what each stored last: the sum it computes is the sum of
\* their results.
C14_ResultVisible ==
    \A p \in Nodes : \A i \in 1 .. Len(hist.got[p]) : hist.got[p][i] = hist.expect[p]

\* C13: the promise of a coroutine is not destroyed while a Coro object
\* that refers to it is alive.
C13_Lifecycle == \A n \in hist.held : kind[n] = "coro"

\* C2: a coroutine whose body is running has no child of its last await
\* that has not yet executed its yield or final notification.
C2_AwaitOrder ==
    \A n \in Nodes :
        (kind[n] = "coro" /\ coro[n].state = "running") => hist.await[n] = {}

RouteBuilt(ti) == IF ti >= 0 /\ ti < nqueues THEN LocalQ(ti) ELSE Central

\* C6: wait_for_termination has returned only if every worker has
\* completely finished thread_task, the clearing of the queues included.
C6_QuiescentShutdown ==
    hist.returned => \A t \in Workers : pc[t] \in {"tt_done", "none"}

\* C7: once terminate() has been called, the active-worker count eventually
\* is 0 and wait_for_termination() eventually returns, when every thread
\* that can take a step eventually takes one.
C7_ShutdownLiveness == m_terminate ~> (m_thread_count = 0 /\ hist.returned)

\* C8: the body of a coroutine that awaited migration to worker k, with
\* 0 <= k < worker_count, runs on worker k.
C8_Affinity ==
    \A n \in Nodes :
        (kind[n] = "coro" /\ coro[n].state = "running" /\ coro[n].want >= 0
            /\ coro[n].want < nqueues)
        => coro[n].on = coro[n].want

\* C9: a node being pushed by schedule(node) goes to the inbox of worker
\* thread_index if 0 <= thread_index < constructed worker count, else to
\* the central queue.
C9_Routing ==
    \A t \in Threads :
        (pc[t] \in {"push_load", "push_cas"} /\ loc[t].q # Recycle)
        => loc[t].q = RouteBuilt(m_thread_index[loc[t].job])

\* C10: no decrement of a parent's counter is made on behalf of a callable
\* before the increment that accounts for it, and a Job with a parent is
\* linked into a work queue only after that increment.
C10_PreIncrement ==
    /\ \A u \in Used : hist.dec[u] > 0 => hist.inc[u] = 1
    /\ \A n \in Nodes : \A q \in Queues \ {Recycle} :
          (IsJob(n) /\ m_parent[n] # NULL /\ m_function[n] \in Used /\ InQ(n, q))
              => hist.inc[m_function[n]] = 1

====
